---- MODULE Spec2Model ----
(***************************************************************************)
(* Model of changellypy/__init__.py: the ChangellyPy JSON-RPC client.      *)
(*                                                                         *)
(* Python values are records [type, v].  A str is a tuple of one-character *)
(* strings, so that str.lower, str() and float() are computed, not assumed.*)
(* Amounts are integers counting units of 1e-9, so that round(x, 8) is a   *)
(* rounding to a multiple of ten.                                          *)
(*                                                                         *)
(* The client is synchronous: a call runs until it blocks in req.post, and *)
(* resumes when the HTTP response arrives.  A call is the handler of the   *)
(* source run from the state at its entry over the responses received so   *)
(* far; the step that delivers a response runs it up to the next post.     *)
(***************************************************************************)
EXTENDS Integers, Sequences, FiniteSets, TLC

VARIABLES
    secret,         \* self._secret of each constructed instance
    init_key,       \* history: the key argument of each instance's __init__
    headers,        \* ChangellyPy._headers, the class-level dict
    currency_list,  \* self.currency_list as read through each instance
    call,           \* the domain method being (or last) executed, its arguments, the state at entry
    responses,      \* the HTTP responses received during the call
    sent,           \* the requests posted during the call
    outcome,        \* blocked in req.post, returned a value, or raised
    remote_min      \* the remote service: the minimum it declares for a pair

vars == <<secret, init_key, headers, currency_list, call, responses, sent, outcome, remote_min>>

----------------------------------------------------------------------------
(* Bounds *)

MaxClients == 2     \* instances constructed
MaxPairs == 2       \* length of the from/to lists of get_exchange_amount

----------------------------------------------------------------------------
(* Python values *)

None == [type |-> "NoneType"]
Str(s) == [type |-> "str", v |-> s]
PyFloat(n) == [type |-> "float", v |-> n]
PyInt(n) == [type |-> "int", v |-> n]
List(q) == [type |-> "list", v |-> q]
Dict(d) == [type |-> "dict", v |-> d]

Exception(name, msg) == [type |-> "exception", v |-> name, msg |-> msg]

Range(q) == {q[i] : i \in 1..Len(q)}
SeqsUpTo(S, n) == UNION {[1..k -> S] : k \in 0..n}
Min(a, b) == IF a < b THEN a ELSE b

UpperChars == <<"A","B","C","D","E","F","G","H","I","J","K","L","M",
                "N","O","P","Q","R","S","T","U","V","W","X","Y","Z">>
LowerChars == <<"a","b","c","d","e","f","g","h","i","j","k","l","m",
                "n","o","p","q","r","s","t","u","v","w","x","y","z">>
DigitChars == <<"0","1","2","3","4","5","6","7","8","9">>

\* the case mappings of the letters
ToLower == [ch \in Range(UpperChars) |-> LowerChars[CHOOSE i \in 1..26 : UpperChars[i] = ch]]
ToUpper == [ch \in Range(LowerChars) |-> UpperChars[CHOOSE i \in 1..26 : LowerChars[i] = ch]]

\* str.lower on one character
lower_char(ch) == IF ch \in DOMAIN ToLower THEN ToLower[ch] ELSE ch

\* str.lower
lower(s) == [i \in 1..Len(s) |-> lower_char(s[i])]

\* str.upper on one character
upper_char(ch) == IF ch \in DOMAIN ToUpper THEN ToUpper[ch] ELSE ch

\* str.upper
upper(s) == [i \in 1..Len(s) |-> upper_char(s[i])]

\* str(n) of a non-negative number: its decimal numeral
RECURSIVE str_of(_)
str_of(n) ==
    IF n < 10 THEN <<DigitChars[n + 1]>>
    ELSE Append(str_of(n \div 10), DigitChars[(n % 10) + 1])

digit_value(ch) == (CHOOSE i \in 1..10 : DigitChars[i] = ch) - 1

\* float(s) of a decimal numeral
RECURSIVE float_of(_)
float_of(s) ==
    IF Len(s) = 0 THEN 0
    ELSE 10 * float_of(SubSeq(s, 1, Len(s) - 1)) + digit_value(s[Len(s)])

\* round(x, 8) on a count of 1e-9 units: the nearest multiple of ten.  The
\* amounts of this model never end in 5 (Python settles such a tie by the
\* binary expansion of the float).
round8(n) == ((n + 5) \div 10) * 10

----------------------------------------------------------------------------
(* Constants of the program and the values the environment supplies *)

\* str constants that the program only passes on are kept as TLA+ strings
API_URL == "https://api.changelly.com"
CONTENT_TYPE == "application/json"

BTC == <<"B","T","C">>
btc == <<"b","t","c">>
xx == <<"x","x">>
ADDR == <<"a","d","d","r">>
E1 == <<"e","1">>
R1 == <<"r","1">>
X1 == <<"x","1">>
T1 == <<"t","1">>
NULL == <<"n","u","l","l">>
EMPTY == <<>>

\* the (key, secret) given to the constructor of the i-th instance: every
\* instance has credentials of its own
KeyArg(i) == <<"k", DigitChars[i + 1]>>
SecretArg(i) == <<"s", DigitChars[i + 1]>>

\* currency codes given by callers
Codes == {BTC, xx}

\* amounts given by callers, in units of 1e-9
Amounts == {10}

\* minimum amounts the remote service may declare, in units of 1e-9: one that
\* rounds down to the amount of the callers, one above it
Minimums == {12, 26}

\* the (from, to) arguments of get_exchange_amount: two bare str, or two
\* lists of str whose lengths are equal or differ by one
ExchangeArgs ==
    {<<Str(f), Str(t)>> : f \in Codes, t \in Codes}
    \cup {<<List(pq[1]), List(pq[2])>> :
            pq \in {x \in SeqsUpTo(Codes, MaxPairs) \X SeqsUpTo(Codes, MaxPairs) :
                        Len(x[1]) - Len(x[2]) \in {-1, 0, 1}}}

\* optional str arguments
ExtraIds == {None, Str(E1)}
RefundAddresses == {None, Str(EMPTY), Str(R1)}
RefundExtraIds == {None, Str(X1)}
TxIds == {PyInt(7)}

\* response bodies: a JSON object with or without a result member
Body(result) == [result |-> result]
NoResult == [error |-> Str(<<"e","r","r">>)]

\* results the remote may give to each command; the minimum it declares is
\* the same for every pair and every request
Results(command) ==
    CASE command = "getCurrencies" ->
            {List(<<>>), List(<<btc>>)}
      [] command = "getMinAmount" ->
            {Str(str_of(remote_min))}
      [] command = "getExchangeAmount" ->
            {Str(str_of(123)), List(<<Dict([amount |-> Str(str_of(123))])>>)}
      [] command = "createTransaction" -> {Str(T1)}
      [] command = "getStatus" -> {Str(<<"f","i","n","i","s","h","e","d">>)}

\* what req.post returns: the status code, the parsed JSON body, and the ok
\* attribute as the requests library computes it (True unless the status is
\* 4xx or 5xx, for which raise_for_status raises)
Reply(code, body) ==
    [status_code |-> code, ok |-> ~(code >= 400 /\ code < 600), json |-> body]

Responses(command) ==
    {Reply(200, Body(r)) : r \in Results(command)}
    \cup {Reply(200, NoResult),
          Reply(304, Body(CHOOSE r \in Results(command) : TRUE)),
          Reply(500, NoResult)}

----------------------------------------------------------------------------
\* dict.get(key): the member, or None when absent
dict_get(d, key) == IF key \in DOMAIN d THEN d[key] ELSE None

----------------------------------------------------------------------------
(* Execution of a call: the state threaded through the handler's statements *)

\* st.status is "running" (st.value is the value of the last expression),
\* "blocked" (in req.post, no response yet) or "raised" (st.value is the exception)
Entry(cl, hd, rs) ==
    [currency_list |-> cl, headers |-> hd, sent |-> <<>>, resps |-> rs,
     status |-> "running", value |-> None]

Value(st, v) == [st EXCEPT !.value = v]
Raise(st, e) == [st EXCEPT !.status = "raised", !.value = e]

HTTPError(code) == [type |-> "exception", v |-> "HTTPError", msg |-> "HTTP status", status_code |-> code]
TypeError == Exception("TypeError", "")
InvalidCurrency == Exception("ValueError", "Invalid currency error.")
BelowMinimum(m, c) == [type |-> "exception", v |-> "ValueError", msg |-> "Min. mount is amount", min |-> m, currency |-> c]
ShapeMismatch == Exception("IndexError", "\"From\" and \"To\" lists do not have the same size.")

\* json.dumps of the envelope: the JSON document, members in insertion order
dumps(command, params) ==
    <<"jsonrpc", "2.0", "id", 1, "method", command,
      "params", IF params.type # "NoneType" THEN params ELSE List(<<>>)>>

\* hmac.new(key, msg, hashlib.sha512).hexdigest(): an ideal keyed hash, a
\* term that two (key, msg) pairs share only when they are equal
hmac_hexdigest(key, msg) == <<"hmac-sha512", key, msg>>

\* The one element of a singleton.  A handler runs a call once and goes on
\* from the state s it left, Only({... s ... : s \in {call}}); a call that
\* blocked or raised ends the handler there.
Only(S) == CHOOSE r \in S : TRUE
Ended(s) == s.status # "running"

\* the return of req.post: the first response not yet consumed, if any
post(st, posted) ==
    IF st.resps = <<>> THEN [st EXCEPT !.sent = Append(@, posted), !.status = "blocked"]
    ELSE [st EXCEPT !.sent = Append(@, posted), !.resps = Tail(@),
                    !.value = Head(st.resps)]

\* the result member of an ok response, else raise_for_status()
result_of(st) ==
    IF st.value.ok
    THEN Value(st, dict_get(st.value.json, "result"))
    ELSE Raise(st, HTTPError(st.value.status_code))

\* _request posting the headers as they were before the signature was set
_request_stale_sign(self, st, command, params) ==
    Only({IF Ended(s1) THEN s1 ELSE result_of(s1) :
          s1 \in {post([st EXCEPT !.headers.sign = hmac_hexdigest(secret[self], dumps(command, params))],
                       [url |-> API_URL, headers |-> st.headers,
                        data |-> dumps(command, params)])}})

\* ChangellyPy._request
_request(self, st, command, params) ==
    Only({IF Ended(s1) THEN s1 ELSE result_of(s1) :
          s1 \in {post([st EXCEPT !.headers.sign = hmac_hexdigest(secret[self], dumps(command, params))],
                       [url |-> API_URL,
                        headers |-> [st.headers EXCEPT !.sign = hmac_hexdigest(secret[self], dumps(command, params))],
                        data |-> dumps(command, params)])}})

\* get_currencies without the test of the cached list
get_currencies_always(self, st) ==
    IF st.currency_list.type # "list" THEN Raise(st, TypeError)
    ELSE Only({IF Ended(s1) THEN s1 ELSE [s1 EXCEPT !.currency_list = s1.value] :
               s1 \in {_request(self, st, "getCurrencies", None)}})

\* get_currencies that returns the fetched list without storing it
get_currencies_unstored(self, st) ==
    IF st.currency_list.type # "list" THEN Raise(st, TypeError)
    ELSE IF Len(st.currency_list.v) = 0
    THEN _request(self, st, "getCurrencies", None)
    ELSE Value(st, st.currency_list)

\* ChangellyPy.get_currencies
get_currencies(self, st) ==
    IF st.currency_list.type # "list" THEN Raise(st, TypeError)
    ELSE IF Len(st.currency_list.v) = 0
    THEN Only({IF Ended(s1) THEN s1 ELSE [s1 EXCEPT !.currency_list = s1.value] :
               s1 \in {_request(self, st, "getCurrencies", None)}})
    ELSE Value(st, st.currency_list)

\* a membership test that accepts every code
contains_any(container, x) == TRUE

\* x in container, for a container that get_currencies returned
contains(container, x) == x \in Range(container.v)

\* float(x) of a str numeral or of a number
float(x) == IF x.type = "str" THEN float_of(x.v) ELSE x.v

\* get_min_amount from line 95 on: the request, and the rounding of its result
min_amount_request(self, st, f, t) ==
    Only({IF Ended(s3) THEN s3
          ELSE IF s3.value.type = "NoneType" THEN Raise(s3, TypeError)
          ELSE Value(s3, PyFloat(round8(float(s3.value)))) :
          s3 \in {_request(self, st, "getMinAmount", Dict([from |-> f, to |-> t]))}})

\* get_min_amount from the second operand of line 90 on
min_amount_to(self, st, f, t) ==
    Only({IF Ended(s2) THEN s2
          ELSE IF s2.value.type # "list" THEN Raise(s2, TypeError)
          ELSE IF ~contains(s2.value, t) THEN Raise(s2, InvalidCurrency)
          ELSE min_amount_request(self, s2, f, t) :
          s2 \in {get_currencies(self, st)}})

\* ChangellyPy.get_min_amount
get_min_amount(self, st, from_currency, to_currency) ==
    Only({IF Ended(s1) THEN s1
          ELSE IF s1.value.type # "list" THEN Raise(s1, TypeError)
          ELSE IF ~contains(s1.value, lower(from_currency)) THEN Raise(s1, InvalidCurrency)
          ELSE min_amount_to(self, s1, lower(from_currency), lower(to_currency)) :
          s1 \in {get_currencies(self, st)}})

\* the comparison with the operands exchanged
below_minimum_swapped(amount, min_amount) == min_amount < amount

\* amount < min_amount
below_minimum(amount, min_amount) == amount < min_amount

\* line 120-122: the minimum of the pair (f, t), and the test of the amount
check_minimum(self, st, f, t, amount) ==
    Only({IF Ended(s3) THEN s3
          ELSE IF below_minimum(amount, s3.value.v)
          THEN Raise(s3, BelowMinimum(s3.value.v, upper(f)))
          ELSE s3 :
          s3 \in {get_min_amount(self, st, f, t)}})

\* line 119-124: one pair of the loop; f_in is the value of `f in self.get_currencies()`
check_pair_to(self, st, f, t, amount, f_in) ==
    Only({IF Ended(s2) THEN s2
          ELSE IF s2.value.type # "list" THEN Raise(s2, TypeError)
          ELSE IF ~(f_in /\ contains(s2.value, t)) THEN Raise(s2, InvalidCurrency)
          ELSE check_minimum(self, s2, f, t, amount) :
          s2 \in {get_currencies(self, st)}})

check_pair(self, st, f, t, amount) ==
    Only({IF Ended(s1) THEN s1
          ELSE IF s1.value.type # "list" THEN Raise(s1, TypeError)
          ELSE check_pair_to(self, s1, f, t, amount, contains(s1.value, f)) :
          s1 \in {get_currencies(self, st)}})

\* the loop of get_exchange_amount over zip(from_currency, to_currency), from pair i on
RECURSIVE validate_pairs(_, _, _, _, _, _)
validate_pairs(self, st, from_currency, to_currency, amount, i) ==
    IF i > Min(Len(from_currency), Len(to_currency)) THEN st
    ELSE Only({IF Ended(s1) THEN s1
               ELSE validate_pairs(self, s1, from_currency, to_currency, amount, i + 1) :
               s1 \in {check_pair(self, st, from_currency[i], to_currency[i], amount)}})

\* a str argument becomes a one-element list; every element is lower-cased
lowered_list(currency) ==
    IF currency.type = "str" THEN <<lower(currency.v)>>
    ELSE [i \in 1..Len(currency.v) |-> lower(currency.v[i])]

\* the rounding of a getExchangeAmount result: a str, or a list of records
rounded_result(result) ==
    IF result.type = "str" THEN PyFloat(round8(float(result)))
    ELSE List([idx \in 1..Len(result.v) |->
                Dict([result.v[idx].v EXCEPT !.amount = PyFloat(round8(float(@)))])])

\* the params of getExchangeAmount: one record, or a list of records
exchange_params(fl, tl, amount) ==
    IF Len(fl) = 1
    THEN Dict([from |-> fl[1], to |-> tl[1], amount |-> PyFloat(amount)])
    ELSE List([i \in 1..Len(fl) |-> Dict([from |-> fl[i], to |-> tl[i], amount |-> PyFloat(amount)])])

\* get_exchange_amount from line 137 on: the request, and the rounding of its result
exchange_request(self, st, params) ==
    Only({IF Ended(s2) THEN s2
          ELSE IF s2.value.type = "NoneType" THEN Raise(s2, TypeError)
          ELSE Value(s2, rounded_result(s2.value)) :
          s2 \in {_request(self, st, "getExchangeAmount", params)}})

\* get_exchange_amount after the arguments are normalized
exchange_amount(self, st, fl, tl, amount) ==
    Only({IF Ended(s1) THEN s1
          ELSE IF Len(fl) # Len(tl) THEN Raise(s1, ShapeMismatch)
          ELSE exchange_request(self, s1, exchange_params(fl, tl, amount)) :
          s1 \in {validate_pairs(self, st, fl, tl, amount, 1)}})

\* ChangellyPy.get_exchange_amount
get_exchange_amount(self, st, from_currency, to_currency, amount) ==
    IF from_currency.type = "NoneType" \/ to_currency.type = "NoneType"
    THEN Raise(st, TypeError)
    ELSE exchange_amount(self, st, lowered_list(from_currency), lowered_list(to_currency),
                         float_of(str_of(amount.v)))

\* all((x is not None, isinstance(x, str), len(x) > 0)): the tuple is built
\* before all() runs, so len(None) raises
refund_given(x) == x.type = "str" /\ Len(x.v) > 0

\* ChangellyPy.create_transaction
create_transaction(self, st, from_currency, to_currency, destination_address, amount, extra_id, refund_address, refund_extra_id) ==
    LET params == [from |-> Str(from_currency), to |-> Str(to_currency),
                   address |-> Str(destination_address),
                   extraId |-> IF extra_id.type = "NoneType" THEN Str(NULL) ELSE extra_id,
                   amount |-> amount]
    IN  IF refund_address.type = "NoneType" THEN Raise(st, TypeError)
        ELSE LET p1 == IF refund_given(refund_address)
                       THEN params @@ [refundAddress |-> refund_address]
                       ELSE params
             IN  IF refund_extra_id.type = "NoneType" THEN Raise(st, TypeError)
                 ELSE LET p2 == IF refund_given(refund_extra_id)
                                THEN p1 @@ [refundExtraId |-> refund_extra_id]
                                ELSE p1
                      IN  _request(self, st, "createTransaction", Dict(p2))

\* str(x) of a str or of an int
str(x) == IF x.type = "str" THEN x.v ELSE str_of(x.v)

\* ChangellyPy.get_transaction_status
get_transaction_status(self, st, tx_id) ==
    _request(self, st, "getStatus", Dict([id |-> Str(str(tx_id))]))

----------------------------------------------------------------------------
(* The state machine *)

NoCall == [op |-> "none"]

\* the module as imported: the class attributes, no instance
Init ==
    /\ secret = <<>>
    /\ init_key = <<>>
    /\ headers = [api_key |-> EMPTY, sign |-> EMPTY, content_type |-> CONTENT_TYPE]
    /\ currency_list = <<>>
    /\ call = NoCall
    /\ responses = <<>>
    /\ sent = <<>>
    /\ outcome = [status |-> "idle", value |-> None]
    /\ remote_min \in Minimums

Instances == 1..Len(secret)
Idle == call.op = "none"

\* str.encode('utf-8')
encode(s) == [type |-> "bytes", v |-> s]

\* ChangellyPy.__init__
Construct ==
    /\ Idle
    /\ Len(secret) < MaxClients
    /\ LET i == Len(secret) + 1
       IN  /\ secret' = Append(secret, encode(SecretArg(i)))
           /\ init_key' = Append(init_key, KeyArg(i))
           /\ headers' = [headers EXCEPT !.api_key = KeyArg(i)]
    /\ currency_list' = Append(currency_list, List(<<>>))
    /\ UNCHANGED <<call, responses, sent, outcome, remote_min>>

\* the handler of a call, run from the state at its entry over the responses
\* rs.  c.entry is self.currency_list at entry; the headers at entry are the
\* present ones but for the sign, which _request sets before every post.
Run(c, rs) ==
    LET st == Entry(c.entry, headers, rs)
        a == c.args
    IN  CASE c.op = "get_currencies" -> get_currencies(c.self, st)
          [] c.op = "get_min_amount" -> get_min_amount(c.self, st, a[1], a[2])
          [] c.op = "get_exchange_amount" -> get_exchange_amount(c.self, st, a[1], a[2], a[3])
          [] c.op = "create_transaction" ->
                create_transaction(c.self, st, a[1], a[2], a[3], a[4], a[5], a[6], a[7])
          [] c.op = "get_transaction_status" -> get_transaction_status(c.self, st, a[1])

\* the state after the call c has run over the responses rs
Advance(c, rs) ==
    \E st \in {Run(c, rs)} :
        /\ call' = c
        /\ responses' = rs
        /\ sent' = st.sent
        /\ headers' = st.headers
        /\ currency_list' = [currency_list EXCEPT ![c.self] = st.currency_list]
        /\ outcome' = [status |-> IF st.status = "running" THEN "returned" ELSE st.status,
                       value |-> st.value]
        /\ UNCHANGED <<secret, init_key, remote_min>>

Begin(op, self, args) ==
    /\ Idle
    /\ Advance([op |-> op, self |-> self, args |-> args,
                entry |-> currency_list[self]], <<>>)

CallGetCurrencies ==
    \E self \in Instances : Begin("get_currencies", self, <<>>)

CallGetMinAmount ==
    \E self \in Instances : \E f \in Codes, t \in Codes :
        Begin("get_min_amount", self, <<f, t>>)

CallGetExchangeAmount ==
    \E self \in Instances : \E ft \in ExchangeArgs, a \in Amounts :
        Begin("get_exchange_amount", self, <<ft[1], ft[2], PyFloat(a)>>)

CallCreateTransaction ==
    \E self \in Instances :
    \E e \in ExtraIds, ra \in RefundAddresses, re \in RefundExtraIds, a \in Amounts :
        Begin("create_transaction", self, <<BTC, xx, ADDR, PyFloat(a), e, ra, re>>)

CallGetTransactionStatus ==
    \E self \in Instances : \E tx \in TxIds :
        Begin("get_transaction_status", self, <<tx>>)

\* the method named in a posted body
MethodOf(posted) == posted.data[6]
ParamsOf(posted) == posted.data[8]

\* req.post returns: the blocked call resumes with the response
Respond ==
    /\ outcome.status = "blocked"
    /\ \E r \in Responses(MethodOf(sent[Len(sent)])) :
          Advance(call, Append(responses, r))

\* the call returns to its caller (or its exception propagates): the frame is gone
Return ==
    /\ outcome.status \in {"returned", "raised"}
    /\ call' = NoCall
    /\ responses' = <<>>
    /\ sent' = <<>>
    /\ outcome' = [status |-> "idle", value |-> None]
    /\ UNCHANGED <<secret, init_key, headers, currency_list, remote_min>>

Next ==
    \/ Construct
    \/ CallGetCurrencies
    \/ CallGetMinAmount
    \/ CallGetExchangeAmount
    \/ CallCreateTransaction
    \/ CallGetTransactionStatus
    \/ Respond
    \/ Return

Spec == Init /\ [][Next]_vars

----------------------------------------------------------------------------
(* What a call shows: its arguments, the requests it posted, the responses *)
(* it received (responses[i] answers sent[i]) and how it ended             *)

InCall == call.op # "none"
Done == outcome.status \in {"returned", "raised"}
Posts(method) == {i \in 1..Len(sent) : MethodOf(sent[i]) = method}
Raises(name, msg) ==
    /\ outcome.status = "raised"
    /\ outcome.value.v = name
    /\ outcome.value.msg = msg
RaisesInvalidCurrency == Raises("ValueError", "Invalid currency error.")
RaisesBelowMinimum == Raises("ValueError", "Min. mount is amount")
RaisesShapeMismatch == Raises("IndexError", "\"From\" and \"To\" lists do not have the same size.")
RaisesHTTPError == Raises("HTTPError", "HTTP status")
Returns(v) == outcome = [status |-> "returned", value |-> v]

\* the response came with a success status and a result member
Succeeded(i) == responses[i].ok /\ "result" \in DOMAIN responses[i].json
AllSucceeded == \A i \in 1..Len(responses) : Succeeded(i)

\* the arguments of get_exchange_amount as the call pairs them
FromList == lowered_list(call.args[1])
ToList == lowered_list(call.args[2])
NPairs == Min(Len(FromList), Len(ToList))
Amount == call.args[3].v

\* what minAmount gives for a pair of member codes: the declared minimum, rounded
RemoteMinAmount == round8(float_of(str_of(remote_min)))

\* the currency list of the calling instance holds codes
Populated(cl) == cl.type = "list" /\ Len(cl.v) > 0

\* the lists that the getCurrencies requests of the call were answered with
Fetched ==
    {responses[i].json.result :
        i \in {j \in Posts("getCurrencies") : j <= Len(responses) /\ Succeeded(j)}}

\* listCurrencies() has yielded one same list throughout the call, the list
\* the instance holds: the populated one it entered with, or the one fetched
ListSteady ==
    /\ currency_list[call.self].type = "list"
    /\ (Populated(call.entry) \/ Fetched = {currency_list[call.self]})

Member(code) ==
    /\ currency_list[call.self].type = "list"
    /\ code \in Range(currency_list[call.self].v)
MemberPairs(fl, tl) ==
    {i \in 1..Min(Len(fl), Len(tl)) : Member(fl[i]) /\ Member(tl[i])}
NonMemberPairs == (1..NPairs) \ MemberPairs(FromList, ToList)
First(S) == CHOOSE i \in S : \A j \in S : i <= j
FirstNonMember == First(NonMemberPairs)

\* the pairs of member codes for which the amount is below minAmount
BelowPairs == IF Amount < RemoteMinAmount THEN MemberPairs(FromList, ToList) ELSE {}
FirstBelow == First(BelowPairs)

----------------------------------------------------------------------------
(* Claims *)

C2_ShapeMismatchBeforeAnyRequest ==
    (call.op = "get_exchange_amount" /\ Len(FromList) # Len(ToList))
    => (sent = <<>> /\ RaisesShapeMismatch)

\* C3: create_transaction without refund_address and refund_extra_id posts a
\* createTransaction request with neither key; given a non-empty str for
\* either, the posted params hold that key with the value given.
C3_RefundKeysAsSupplied ==
    call.op = "create_transaction" =>
        LET ra == call.args[6]
            re == call.args[7]
            p == ParamsOf(sent[1]).v
        IN  ((ra.type = "NoneType" /\ re.type = "NoneType") \/ refund_given(ra) \/ refund_given(re))
            => /\ Len(sent) = 1
               /\ MethodOf(sent[1]) = "createTransaction"
               /\ (ra.type = "NoneType" /\ re.type = "NoneType")
                    => ("refundAddress" \notin DOMAIN p /\ "refundExtraId" \notin DOMAIN p)
               /\ refund_given(ra) => ("refundAddress" \in DOMAIN p /\ p.refundAddress = ra)
               /\ refund_given(re) => ("refundExtraId" \in DOMAIN p /\ p.refundExtraId = re)

\* C4: every request an instance posts carries in its api-key header the key
\* given to that instance's constructor.
C4_ApiKeyOfOwnConstruction ==
    \A i \in 1..Len(sent) : sent[i].headers.api_key = init_key[call.self]

\* C5: the sign header of every request posted is the keyed hash, under the
\* posting instance's secret, of the body posted in that request.
C5_SignatureOfBodySent ==
    \A i \in 1..Len(sent) :
        sent[i].headers.sign = hmac_hexdigest(secret[call.self], sent[i].data)

\* the second instance posts a second request in one call, after a first response
C5_Witness ==
    /\ InCall
    /\ call.self = 2
    /\ Len(sent) >= 2
    /\ MethodOf(sent[1]) # MethodOf(sent[2])

\* C6: a populated currency list never changes; a call entered with a populated
\* list posts no getCurrencies request, and get_currencies returns that list;
\* a get_currencies call made while the list is empty posts getCurrencies.
C6_InCall ==
    InCall =>
        /\ Populated(call.entry)
            => /\ Posts("getCurrencies") = {}
               /\ call.op = "get_currencies" => Returns(call.entry)
        /\ (call.entry = List(<<>>) /\ call.op \in {"get_currencies", "get_min_amount"})
            => (Len(sent) >= 1 /\ MethodOf(sent[1]) = "getCurrencies")
        /\ (call.entry = List(<<>>) /\ call.op = "get_exchange_amount" /\ NPairs >= 1)
            => /\ Len(sent) >= 1 /\ MethodOf(sent[1]) = "getCurrencies"
               /\ (Len(responses) >= 1 /\ Succeeded(1) /\ responses[1].json.result = List(<<>>))
                    => (Len(sent) >= 2 /\ MethodOf(sent[2]) = "getCurrencies")

C6_Kept ==
    \A c \in Instances :
        Populated(currency_list[c]) => currency_list'[c] = currency_list[c]

C6_PopulateOnce == []C6_InCall /\ [][C6_Kept]_vars

\* get_min_amount, entered with a populated list, returned without a getCurrencies request
C6_Witness ==
    /\ call.op = "get_min_amount"
    /\ Populated(call.entry)
    /\ outcome.status = "returned"
    /\ Len(sent) = 1

\* C7: _request returns the result member of the body exactly when the status
\* is 2xx, and raises the HTTP error for every other status.
C7_ResultExactlyOn2xx ==
    (InCall /\ Len(responses) >= 1) =>
        LET r == responses[Len(responses)]
        IN  IF r.status_code >= 200 /\ r.status_code < 300
            THEN call.op \in {"create_transaction", "get_transaction_status"}
                    => Returns(dict_get(r.json, "result"))
            ELSE RaisesHTTPError

\* C8, get_min_amount: a getMinAmount request is posted only for lower-cased
\* codes that are both members of the list, and carries them; when a code is
\* not a member the call raises the invalid-currency error and posts none
\* (every request of the call having been answered with a result).
C8_MinAmount ==
    call.op = "get_min_amount" =>
        LET f == lower(call.args[1])
            t == lower(call.args[2])
        IN  /\ \A i \in Posts("getMinAmount") :
                  /\ Member(f) /\ Member(t)
                  /\ ParamsOf(sent[i]) = Dict([from |-> f, to |-> t])
            /\ (ListSteady /\ AllSucceeded /\ ~(Member(f) /\ Member(t)))
                  => (RaisesInvalidCurrency /\ Posts("getMinAmount") = {})

\* C8 as stated: get_min_amount as above, and get_exchange_amount raises the
\* invalid-currency error whenever some paired code is not a member (every
\* request of the call having been answered with a result, and the currency
\* list being the same throughout).
C8_InvalidCurrencyWhenAnyNonMember ==
    /\ C8_MinAmount
    /\ (call.op = "get_exchange_amount" /\ Done /\ ListSteady /\ AllSucceeded
            /\ NonMemberPairs # {})
        => RaisesInvalidCurrency

\* C8 amended, for calls whose requests were all answered with a result and
\* in which the currency list was the same throughout: get_min_amount as
\* above, and get_exchange_amount raises the invalid-currency error when some
\* paired code is not a member and the amount is not below minAmount of any
\* earlier pair; it has then posted exactly one getMinAmount request per pair
\* before the first one with a non-member, and no getExchangeAmount request.
C8_InvalidCurrencyAtFirstFailure ==
    /\ C8_MinAmount
    /\ (call.op = "get_exchange_amount" /\ Done /\ ListSteady /\ AllSucceeded
            /\ NonMemberPairs # {}
            /\ \A i \in BelowPairs : FirstNonMember < i)
        => /\ RaisesInvalidCurrency
           /\ Cardinality(Posts("getMinAmount")) = FirstNonMember - 1
           /\ Posts("getExchangeAmount") = {}

\* the second pair of a call holds a code that is not a member, the first passed
C8_Witness ==
    /\ call.op = "get_exchange_amount"
    /\ RaisesInvalidCurrency
    /\ ListSteady /\ AllSucceeded
    /\ Cardinality(Posts("getMinAmount")) = 1
    /\ NonMemberPairs = {2}

\* C9: create_transaction posts a createTransaction request whose extraId is
\* the str "null" when extra_id is omitted, and the value given otherwise.
C9_ExtraIdNullString ==
    call.op = "create_transaction" =>
        /\ Len(sent) = 1
        /\ MethodOf(sent[1]) = "createTransaction"
        /\ ParamsOf(sent[1]).v.extraId =
              IF call.args[5].type = "NoneType" THEN Str(NULL) ELSE call.args[5]

\* C10 as stated: no call posts more than one request.
C10_AtMostOnePost == Len(sent) <= 1

\* C10 amended: get_currencies, create_transaction and get_transaction_status
\* post at most one request; get_min_amount at most one getCurrencies and one
\* getMinAmount; get_exchange_amount at most two getCurrencies, one
\* getMinAmount per pair and one getExchangeAmount, and no getCurrencies when
\* entered with a populated list.
C10_PostsPerMethod ==
    InCall =>
        CASE call.op \in {"get_currencies", "create_transaction", "get_transaction_status"} ->
                Len(sent) <= 1
          [] call.op = "get_min_amount" ->
                /\ Cardinality(Posts("getCurrencies")) <= 1
                /\ Cardinality(Posts("getMinAmount")) <= 1
                /\ Len(sent) <= 2
                /\ Populated(call.entry) => Len(sent) <= 1
          [] call.op = "get_exchange_amount" ->
                /\ Cardinality(Posts("getCurrencies")) <= 2
                /\ Cardinality(Posts("getMinAmount")) <= NPairs
                /\ Cardinality(Posts("getExchangeAmount")) <= 1
                /\ Len(sent) <= NPairs + 2
                /\ Populated(call.entry) => Len(sent) <= NPairs + 1

\* a two-pair quote entered with an empty list returned after four requests
C10_Witness ==
    /\ call.op = "get_exchange_amount"
    /\ call.entry = List(<<>>)
    /\ NPairs = 2
    /\ outcome.status = "returned"
    /\ Len(sent) = 4

====
